---- MODULE Spec2Model ----
(***************************************************************************)
(* unified-mcp-server (src/server.js): a registry of backend subprocesses  *)
(* (mcpProcesses), the supervisor that fills it (initializeMCPServers, the *)
(* exit observer, the SIGTERM handler), the protocol router (MCPHandler)   *)
(* and the two transports (the HTTP routes and the WebSocket channel).     *)
(*                                                                         *)
(* Strings are modelled by what the code does with them.  A tool name or a *)
(* backend name is the sequence of its '_'-separated segments, which is    *)
(* what String.prototype.split('_') returns: "alpha_search" is             *)
(* <<"alpha", "search">>.  A uri is the sequence of its '/'-separated      *)
(* parts.  The JavaScript value undefined is Undefined for a string and    *)
(* the empty sequence for a name or a uri (split never returns an empty    *)
(* array, so the empty sequence is no string).                             *)
(*                                                                         *)
(* One event-loop turn (macrotask) runs to completion and then the         *)
(* microtask queue drains before the next turn starts; the continuation of *)
(* an await is a microtask.  The model keeps that queue explicitly.        *)
(***************************************************************************)
EXTENDS Integers, Sequences, FiniteSets, TLC

\* ------------------------------------------------------------------ bounds
\* Messages the client sends on the one channel connection.
MaxMessages == 2

\* ------------------------------------------------------------------ values
Undefined == "<undefined>"
UndefinedName == <<>>

\* The error code of every channel error envelope (server.js:282).
ErrorCode == -32000

\* Exit code of process.exit(0) (server.js:302).
ExitOk == 0

\* Exit code of Node (node:20, started without --unhandled-rejections) when a
\* promise rejection has no handler: the rejection is raised as an uncaught
\* exception.  The channel handler's own promise is such a promise.
ExitUnhandled == 1

\* REPOSITORIES (server.js:13-17): name -> url, in insertion order, which is
\* the order Object.entries iterates.  The entries are those of the spec's
\* end-to-end scenario; the code treats names and urls as opaque strings.
REPOSITORIES ==
    << [name |-> <<"alpha">>, url |-> "http://x"],
       [name |-> <<"beta">>,  url |-> "http://y"] >>

ConfigNames == { REPOSITORIES[i].name : i \in DOMAIN REPOSITORIES }

\* ------------------------------------------------------- Map (mcpProcesses)
\* A Map is the sequence of its entries in insertion order; an entry is
\* [name, process, url, status].

\* Map.prototype.has
MapHas(m, key) == \E i \in DOMAIN m : m[i].name = key

\* Array.from(mcpProcesses.keys())
RECURSIVE MapKeys(_)
MapKeys(m) ==
    IF m = <<>> THEN <<>> ELSE <<Head(m).name>> \o MapKeys(Tail(m))

\* Faulty variant of MapDelete: the entry is marked exited and kept.
RECURSIVE MapDeleteMarksExited(_, _)
MapDeleteMarksExited(m, key) ==
    IF m = <<>> THEN <<>>
    ELSE <<IF Head(m).name = key THEN [Head(m) EXCEPT !.status = "exited"]
           ELSE Head(m)>> \o MapDeleteMarksExited(Tail(m), key)

\* Map.prototype.delete: the entry goes, the others keep their order.
RECURSIVE MapDelete(_, _)
MapDelete(m, key) ==
    IF m = <<>> THEN <<>>
    ELSE IF Head(m).name = key THEN MapDelete(Tail(m), key)
    ELSE <<Head(m)>> \o MapDelete(Tail(m), key)

\* Map.prototype.set: a new key is appended, an existing key keeps its place.
MapSet(m, key, value) ==
    IF MapHas(m, key)
    THEN [i \in DOMAIN m |-> IF m[i].name = key THEN value ELSE m[i]]
    ELSE Append(m, value)

\* ------------------------------------------------------------- Aggregator
SearchTool(repoName) ==
    [ name        |-> repoName \o <<"search">>,
      description |-> <<"Search", repoName, "repository">>,
      required    |-> <<"query">> ]

ListTool(repoName) ==
    [ name        |-> repoName \o <<"list">>,
      description |-> <<"List files in", repoName, "repository">>,
      required    |-> <<>> ]

\* Faulty variant of getAllTools: the second push (lines 122-131) is missing.
RECURSIVE getAllToolsSearchOnly(_)
getAllToolsSearchOnly(m) ==
    IF m = <<>> THEN <<>>
    ELSE (IF Head(m).status = "running"
          THEN << SearchTool(Head(m).name) >>
          ELSE <<>>) \o getAllToolsSearchOnly(Tail(m))

\* MCPHandler.getAllTools (server.js:103-136)
RECURSIVE getAllTools(_)
getAllTools(m) ==
    IF m = <<>> THEN <<>>
    ELSE (IF Head(m).status = "running"
          THEN << SearchTool(Head(m).name), ListTool(Head(m).name) >>
          ELSE <<>>) \o getAllTools(Tail(m))

ResourceOf(repoName) ==
    [ uri      |-> <<"mcp:", "", repoName, "">>,
      name     |-> <<repoName, "Repository">>,
      mimeType |-> "application/json" ]

\* MCPHandler.getAllResources (server.js:138-153)
RECURSIVE getAllResources(_)
getAllResources(m) ==
    IF m = <<>> THEN <<>>
    ELSE (IF Head(m).status = "running"
          THEN << ResourceOf(Head(m).name) >>
          ELSE <<>>) \o getAllResources(Tail(m))

\* ----------------------------------------------------------------- Router
\* What an async Router function settles with: a value, or a thrown Error
\* with its message.
Return(v) == [ok |-> TRUE, value |-> v, message |-> <<>>]
Throw(msg) == [ok |-> FALSE, value |-> <<>>, message |-> msg]

TypeErrorReading(prop) ==
    <<"Cannot read properties of undefined (reading", prop, ")">>

\* const [repoName, action] = name.split('_')   (server.js:157)
\* split cuts at every '_'; the destructuring keeps the first two pieces.
SplitRepoName(name) == name[1]
SplitAction(name) == IF Len(name) >= 2 THEN name[2] ELSE Undefined

\* Faulty variant of callTool: the action is looked at before the registry.
callToolActionFirst(m, name, args) ==
    IF name = UndefinedName THEN Throw(TypeErrorReading("split"))
    ELSE LET repoName == SplitRepoName(name)
             action   == SplitAction(name)
         IN  IF action \notin {"search", "list"}
             THEN Throw(<<"Unknown action:", action>>)
             ELSE IF ~MapHas(m, <<repoName>>)
             THEN Throw(<<"Repository", repoName, "not available">>)
             ELSE IF ~args.present
             THEN Throw(TypeErrorReading(IF action = "search" THEN "query" ELSE "path"))
             ELSE Return([kind |-> action, path |-> <<repoName>>, content |-> <<>>])

\* MCPHandler.callTool (server.js:155-187).  args is [present, query, path].
callTool(m, name, args) ==
    IF name = UndefinedName THEN Throw(TypeErrorReading("split"))
    ELSE LET repoName == SplitRepoName(name)
             action   == SplitAction(name)
         IN  IF ~MapHas(m, <<repoName>>)
             THEN Throw(<<"Repository", repoName, "not available">>)
             ELSE CASE action = "search" ->
                        IF ~args.present THEN Throw(TypeErrorReading("query"))
                        ELSE Return([ kind    |-> "results",
                                      path    |-> <<"", repoName, "example.md">>,
                                      content |-> <<"Search results for", args.query,
                                                    "in", repoName>> ])
                    [] action = "list" ->
                        IF ~args.present THEN Throw(TypeErrorReading("path"))
                        ELSE Return([ kind    |-> "files",
                                      path    |-> <<args.path, "README.md">>,
                                      content |-> <<args.path, "docs", "">> ])
                    [] OTHER -> Throw(<<"Unknown action:", action>>)

\* Faulty variant of readResource: the backend is taken from the first part
\* of the uri, the scheme is not skipped.
readResourceFirstPart(uri) ==
    IF uri = <<>> THEN Throw(TypeErrorReading("split"))
    ELSE LET repoName == uri[1]
             path     == SubSeq(uri, 2, Len(uri))
         IN  Return([ kind |-> "contents",
                      uri  |-> uri,
                      text |-> <<"Content of", path, "from", repoName>> ])

\* MCPHandler.readResource (server.js:189-203)
\* const [, , repoName, ...pathParts] = uri.split('/')
readResource(uri) ==
    IF uri = <<>> THEN Throw(TypeErrorReading("split"))
    ELSE LET repoName == IF Len(uri) >= 3 THEN uri[3] ELSE Undefined
             path     == SubSeq(uri, 4, Len(uri))
         IN  Return([ kind |-> "contents",
                      uri  |-> uri,
                      text |-> <<"Content of", path, "from", repoName>> ])

Announcement ==
    [ kind |-> "initialize", protocolVersion |-> "2024-11-05",
      serverInfo |-> <<"unified-mcp-server", "1.0.0">> ]

\* MCPHandler.handleRequest (server.js:67-101).  params is
\* [present, name, arguments, uri]; reading a field of an absent params
\* throws before the callee is entered.
handleRequest(m, method, params) ==
    CASE method = "initialize" -> Return(Announcement)
      [] method = "tools/list" ->
            Return([kind |-> "tools", tools |-> getAllTools(m)])
      [] method = "tools/call" ->
            IF ~params.present THEN Throw(TypeErrorReading("name"))
            ELSE callTool(m, params.name, params.arguments)
      [] method = "resources/list" ->
            Return([kind |-> "resources", resources |-> getAllResources(m)])
      [] method = "resources/read" ->
            IF ~params.present THEN Throw(TypeErrorReading("uri"))
            ELSE readResource(params.uri)
      [] OTHER -> Throw(<<"Unknown method:", method>>)

\* Whether handleRequest reaches one of its own awaits (lines 84, 88, 92,
\* 96) before it settles: its promise is then still pending when it returns
\* to the caller, and settles one microtask later.
RouterAwaits(method, params) ==
    \/ method \in {"tools/list", "resources/list"}
    \/ method \in {"tools/call", "resources/read"} /\ params.present

\* ------------------------------------------------------------------ state
VARIABLES
    mcpProcesses,  \* the Map of line 20
    children,      \* name -> "none" | "alive" | "killed" | "exited": the subprocess
    failed,        \* names whose start was logged as failed (line 55)
    exits,         \* name -> exit codes the exit observer has logged (line 44)
    phase,         \* "booting" | "listening" | "exited" | "crashed": this process
    exitCode,      \* <<code>> once it has ended, else <<>>
    wire,          \* channel messages the client has sent, not yet delivered
    requests,      \* the channel handler's invocations, in order of receipt
    microtasks,    \* queued continuations (indices of requests), first in first out
    emitting,      \* the socket's data event is still emitting 'message' events
    unhandled,     \* a handler's promise was rejected and nothing handles it
    sent,          \* envelopes ws.send has written, in order
    httpRes        \* the HTTP response of the turn just run, or NoResponse

vars == << mcpProcesses, children, failed, exits, phase, exitCode, wire,
           requests, microtasks, emitting, unhandled, sent, httpRes >>

NoResponse == [route |-> "none", arg |-> <<>>, status |-> 0, body |-> <<>>]

\* ------------------------------------------------------------- Supervisor
\* An entry as lines 48-52 write it; the handle is the child spawned for
\* that name.
\* Faulty variant of Entry: the entry is stored before the child is up, in
\* state starting.
EntryStarting(cfg) ==
    [name |-> cfg.name, process |-> <<"child", cfg.name>>,
     url |-> cfg.url, status |-> "starting"]

Entry(cfg) ==
    [name |-> cfg.name, process |-> <<"child", cfg.name>>,
     url |-> cfg.url, status |-> "running"]

\* Lines 30-33:  const process = spawn('npx', [...], {..., env: { ...process.env, ...}})
\* The argument reads `process`, which inside this block is the const being
\* declared and not yet initialised: evaluating it throws ReferenceError
\* before spawn is called, for every name.
SpawnStatement(cfg) == "ReferenceError"

\* One iteration of the loop (lines 26-57) on st = [map, children, failed].
StartOne(st, cfg) ==
    IF SpawnStatement(cfg) = "spawned"
    THEN [st EXCEPT !.map = MapSet(@, cfg.name, Entry(cfg)),
                    !.children = [@ EXCEPT ![cfg.name] = "alive"]]
    ELSE [st EXCEPT !.failed = @ \cup {cfg.name}]

\* initializeMCPServers (lines 23-58): the loop has no await, it runs in
\* one turn.
RECURSIVE initializeMCPServers(_, _)
initializeMCPServers(st, cfgs) ==
    IF cfgs = <<>> THEN st
    ELSE initializeMCPServers(StartOne(st, Head(cfgs)), Tail(cfgs))

\* server.listen's callback (lines 306-309)
Listen ==
    /\ phase = "booting"
    /\ LET st == initializeMCPServers(
                    [map |-> mcpProcesses, children |-> children, failed |-> failed],
                    REPOSITORIES)
       IN  /\ mcpProcesses' = st.map
           /\ children' = st.children
           /\ failed' = st.failed
    /\ phase' = "listening"
    /\ UNCHANGED << exits, exitCode, wire, requests, microtasks, emitting,
                    unhandled, sent, httpRes >>

\* A turn can start when this process runs, the turn before it has ended,
\* the microtask queue is empty and no rejection is waiting to end the
\* process.
Idle ==
    /\ phase = "listening"
    /\ httpRes = NoResponse
    /\ microtasks = <<>>
    /\ ~unhandled

ExitCodes == {0, 1}

\* process.on('exit') of the child of `name` (lines 43-46)
OnExit(name, code) ==
    /\ Idle
    /\ children[name] = "alive"
    /\ children' = [children EXCEPT ![name] = "exited"]
    /\ exits' = [exits EXCEPT ![name] = @ \cup {code}]
    /\ mcpProcesses' = MapDelete(mcpProcesses, name)
    /\ UNCHANGED << failed, phase, exitCode, wire, requests, microtasks,
                    emitting, unhandled, sent, httpRes >>

\* Faulty variant of KillAll: the loop stops after the first entry.
KillFirst(m, ch) ==
    IF m = <<>> THEN ch ELSE [ch EXCEPT ![Head(m).name] = "killed"]

\* data.process.kill() for every entry (lines 297-301)
RECURSIVE KillAll(_, _)
KillAll(m, ch) ==
    IF m = <<>> THEN ch
    ELSE KillAll(Tail(m), [ch EXCEPT ![Head(m).name] = "killed"])

\* process.on('SIGTERM') (lines 295-303): synchronous, ends in process.exit(0).
Sigterm ==
    /\ phase \in {"booting", "listening"}
    /\ httpRes = NoResponse /\ microtasks = <<>> /\ ~unhandled
    /\ children' = KillAll(mcpProcesses, children)
    /\ phase' = "exited"
    /\ exitCode' = <<ExitOk>>
    /\ UNCHANGED << mcpProcesses, failed, exits, wire, requests, microtasks,
                    emitting, unhandled, sent, httpRes >>

\* --------------------------------------------------------- HTTP transport
\* Each route's handler runs in its own turn; its awaits are on promises
\* that are already settled, so the response is written before any other
\* turn starts.  httpRes holds the response until the turn ends (HttpEnd).  A response is [route, arg, status, body]; arg is the route's
\* path parameter.
Respond(route, arg, status, body) ==
    [route |-> route, arg |-> arg, status |-> status, body |-> body]

\* try { ...; res.json(...) } catch (error) { res.status(500).json({error: error.message}) }
HttpReply(route, arg, out) ==
    IF out.ok THEN Respond(route, arg, 200, [result |-> out.value])
    ELSE Respond(route, arg, 500, [error |-> out.message])

\* Faulty variant of HttpTurn: a request the Router fails drops the first
\* entry of the Map.
HttpTurnDropsOnError(res) ==
    /\ Idle
    /\ httpRes' = res
    /\ mcpProcesses' = IF res.status = 500 /\ mcpProcesses # <<>>
                       THEN Tail(mcpProcesses) ELSE mcpProcesses
    /\ UNCHANGED << children, failed, exits, phase, exitCode, wire,
                    requests, microtasks, emitting, unhandled, sent >>

HttpTurn(res) ==
    /\ Idle
    /\ httpRes' = res
    /\ UNCHANGED << mcpProcesses, children, failed, exits, phase, exitCode, wire,
                    requests, microtasks, emitting, unhandled, sent >>

\* res.json has written the response and the turn ends.
HttpEnd ==
    /\ httpRes # NoResponse
    /\ httpRes' = NoResponse
    /\ UNCHANGED << mcpProcesses, children, failed, exits, phase, exitCode, wire,
                    requests, microtasks, emitting, unhandled, sent >>

\* entries().map(([name, data]) => ({name, status: data.status, url: data.url}))
RECURSIVE HealthProcesses(_)
HealthProcesses(m) ==
    IF m = <<>> THEN <<>>
    ELSE << [name |-> Head(m).name, status |-> Head(m).status, url |-> Head(m).url] >>
         \o HealthProcesses(Tail(m))

\* Faulty variant of HealthStatus: repositories lists the configured names.
HealthStatusConfigured(m) ==
    [ status       |-> "healthy",
      repositories |-> MapKeys(REPOSITORIES),
      processes    |-> HealthProcesses(m) ]

\* The body of GET /health (lines 210-219), without the timestamp.
HealthStatus(m) ==
    [ status       |-> "healthy",
      repositories |-> MapKeys(m),
      processes    |-> HealthProcesses(m) ]

\* app.get('/health') (lines 209-221)
Health == HttpTurn(Respond("health", <<>>, 200, HealthStatus(mcpProcesses)))

\* app.get('/mcp/tools') (lines 223-230)
HttpTools ==
    HttpTurn(Respond("tools", <<>>, 200, [tools |-> getAllTools(mcpProcesses)]))

\* app.get('/mcp/resources') (lines 241-248)
HttpResources ==
    HttpTurn(Respond("resources", <<>>, 200,
                     [resources |-> getAllResources(mcpProcesses)]))

\* Arguments objects: [present, query, path]; a key the object does not have
\* reads as undefined.
EmptyArgs == [present |-> TRUE, query |-> Undefined, path |-> Undefined]
NoArgs    == [present |-> FALSE, query |-> Undefined, path |-> Undefined]
ArgsSet ==
    { NoArgs, EmptyArgs,
      [present |-> TRUE, query |-> "foo", path |-> Undefined],
      [present |-> TRUE, query |-> Undefined, path |-> "src"] }

\* req.body.arguments || {}   (line 234)
OrEmpty(args) == IF args.present THEN args ELSE EmptyArgs

\* Tool names a caller may send.
ToolNames ==
    { <<"alpha", "search">>, <<"alpha", "list">>, <<"beta", "search">>,
      <<"beta", "list">>, <<"alpha", "bogus">>, <<"gamma", "search">>,
      <<"gamma", "bogus">>, <<"alpha">>, <<"alpha", "search", "extra">> }

\* app.post('/mcp/tools/:toolName') (lines 232-239)
HttpCallTool(toolName, args) ==
    HttpTurn(HttpReply("call", toolName,
                       callTool(mcpProcesses, toolName, OrEmpty(args))))

\* Paths after /mcp/resources/, as their '/'-separated parts.
ResourcePaths == { <<"alpha", "">>, <<"gamma", "docs", "a.md">>, <<"beta">> }

\* const uri = `mcp://${req.params[0]}`   (line 252)
UriOf(path) == <<"mcp:", "">> \o path

\* app.get('/mcp/resources/*') (lines 250-258): res.json(resource), unwrapped.
HttpReadResource(path) ==
    LET out == readResource(UriOf(path))
    IN  HttpTurn(IF out.ok THEN Respond("read", path, 200, out.value)
                 ELSE Respond("read", path, 500, [error |-> out.message]))

\* ------------------------------------------------------ channel transport
\* Params objects: [present, name, arguments, uri].
NoParams == [present |-> FALSE, name |-> <<>>, arguments |-> NoArgs, uri |-> <<>>]
CallParams(name, args) ==
    [present |-> TRUE, name |-> name, arguments |-> args, uri |-> <<>>]
ReadParams(uri) ==
    [present |-> TRUE, name |-> <<>>, arguments |-> NoArgs, uri |-> uri]

\* An inbound message: text that JSON.parse rejects, or an envelope with or
\* without an id, a method (Undefined when the field is missing) and params.
NonJson == [json |-> FALSE, hasId |-> FALSE, method |-> Undefined, params |-> NoParams]
Envelope(hasId, method, params) ==
    [json |-> TRUE, hasId |-> hasId, method |-> method, params |-> params]

WsInputs ==
    { NonJson,
      Envelope(TRUE,  "initialize", NoParams),
      Envelope(FALSE, "initialize", NoParams),
      Envelope(TRUE,  "tools/list", NoParams),
      Envelope(TRUE,  "resources/list", NoParams),
      Envelope(TRUE,  "bogus/method", NoParams),
      Envelope(TRUE,  Undefined, NoParams),
      Envelope(TRUE,  "tools/call", NoParams),
      Envelope(TRUE,  "tools/call",
               CallParams(<<"alpha", "search">>,
                          [present |-> TRUE, query |-> "foo", path |-> Undefined])),
      Envelope(TRUE,  "tools/call", CallParams(<<"alpha", "search">>, NoArgs)),
      Envelope(TRUE,  "tools/call", CallParams(<<"gamma", "bogus">>, EmptyArgs)),
      Envelope(TRUE,  "tools/call", CallParams(<<"alpha", "bogus">>, EmptyArgs)),
      Envelope(TRUE,  "resources/read",
               ReadParams(<<"mcp:", "", "gamma", "docs", "a.md">>)) }

\* ws.send(JSON.stringify({jsonrpc, id: request.id, result: response}))  (272-276)
ResultEnvelope(id, value) == [id |-> id, kind |-> "result", payload |-> value]

\* {jsonrpc, id, error: {code: -32000, message}}: the envelope lines 278-285 spell.
ErrorEnvelope(id, message) ==
    [id |-> id, kind |-> "error",
     payload |-> [code |-> ErrorCode, message |-> message]]

\* The catch block (lines 277-286) on invocation r.  `request` is declared
\* with const inside the try block (line 269) and is not in scope here:
\* evaluating request.id throws ReferenceError before ws.send is called.
\* Nothing is sent and the handler's promise is rejected.
CatchBlock(r) == [sends |-> <<>>, throws |-> TRUE]

\* The client writes one more message to the connection.
ClientSend ==
    /\ phase = "listening"
    /\ httpRes = NoResponse
    /\ Len(requests) + wire < MaxMessages
    /\ wire' = wire + 1
    /\ UNCHANGED << mcpProcesses, children, failed, exits, phase, exitCode,
                    requests, microtasks, emitting, unhandled, sent, httpRes >>

\* Faulty variant of WsMessage: the Router keeps the tools array between
\* calls, so a tools/list answer repeats what the earlier ones listed.
WsMessageAccumulating(msg) ==
    /\ phase = "listening"
    /\ wire > 0
    /\ Idle \/ emitting
    /\ wire' = wire - 1
    /\ emitting' = TRUE
    /\ LET i     == Len(requests) + 1
           id    == IF msg.json /\ msg.hasId THEN <<i>> ELSE <<>>
           fresh == IF msg.json
                    THEN handleRequest(mcpProcesses, msg.method, msg.params)
                    ELSE Throw(<<"Unexpected token">>)
           kept  == IF \E k \in DOMAIN requests :
                           requests[k].msg.json /\ requests[k].msg.method = "tools/list"
                    THEN getAllTools(mcpProcesses) ELSE <<>>
           out   == IF msg.json /\ msg.method = "tools/list"
                    THEN Return([kind |-> "tools", tools |-> kept \o fresh.value.tools])
                    ELSE fresh
       IN  IF ~msg.json
           THEN /\ requests' = Append(requests,
                        [msg |-> msg, id |-> id, st |-> "rejected", out |-> out])
                /\ unhandled' = TRUE
                /\ UNCHANGED << sent, microtasks >>
           ELSE /\ requests' = Append(requests,
                        [msg |-> msg, id |-> id,
                         st  |-> IF RouterAwaits(msg.method, msg.params)
                                 THEN "router" ELSE "adapter",
                         out |-> out])
                /\ microtasks' = Append(microtasks, i)
                /\ UNCHANGED << sent, unhandled >>
    /\ UNCHANGED << mcpProcesses, children, failed, exits, phase, exitCode,
                    httpRes >>

\* ws.on('message') (lines 267-287), up to its first suspension.  A message
\* is delivered in a turn of its own, or in the turn of the message before
\* it when one data event carries both frames.
WsMessage(msg) ==
    /\ phase = "listening"
    /\ wire > 0
    /\ Idle \/ emitting
    /\ wire' = wire - 1
    /\ emitting' = TRUE
    /\ LET i  == Len(requests) + 1
           id == IF msg.json /\ msg.hasId THEN <<i>> ELSE <<>>
       IN  IF ~msg.json
           THEN LET r == [msg |-> msg, id |-> id, st |-> "rejected",
                          out |-> Throw(<<"Unexpected token">>)]
                    c == CatchBlock(r)
                IN  /\ requests' = Append(requests,
                            [r EXCEPT !.st = IF c.throws THEN "rejected" ELSE "replied"])
                    /\ sent' = sent \o c.sends
                    /\ unhandled' = (unhandled \/ c.throws)
                    /\ microtasks' = microtasks
           ELSE /\ requests' = Append(requests,
                        [msg |-> msg, id |-> id,
                         st  |-> IF RouterAwaits(msg.method, msg.params)
                                 THEN "router" ELSE "adapter",
                         out |-> handleRequest(mcpProcesses, msg.method, msg.params)])
                /\ microtasks' = Append(microtasks, i)
                /\ UNCHANGED << sent, unhandled >>
    /\ UNCHANGED << mcpProcesses, children, failed, exits, phase, exitCode,
                    httpRes >>

\* The first queued continuation runs: handleRequest resumes from its await
\* and settles (the handler's continuation is queued behind the others), or
\* the handler resumes from line 270 and sends its reply or enters the catch.
RunMicrotask ==
    /\ phase = "listening"
    /\ microtasks # <<>>
    /\ emitting' = FALSE
    /\ LET i == Head(microtasks)
           r == requests[i]
       IN  CASE r.st = "router" ->
                  /\ requests' = [requests EXCEPT ![i].st = "adapter"]
                  /\ microtasks' = Append(Tail(microtasks), i)
                  /\ UNCHANGED << sent, unhandled >>
             [] r.st = "adapter" /\ r.out.ok ->
                  /\ requests' = [requests EXCEPT ![i].st = "replied"]
                  /\ microtasks' = Tail(microtasks)
                  /\ sent' = Append(sent, ResultEnvelope(r.id, r.out.value))
                  /\ UNCHANGED unhandled
             [] OTHER ->
                  LET c == CatchBlock(r)
                  IN  /\ requests' = [requests EXCEPT
                              ![i].st = IF c.throws THEN "rejected" ELSE "replied"]
                      /\ microtasks' = Tail(microtasks)
                      /\ sent' = sent \o c.sends
                      /\ unhandled' = (unhandled \/ c.throws)
    /\ UNCHANGED << mcpProcesses, children, failed, exits, phase, exitCode, wire,
                    httpRes >>

\* The microtask queue has drained and a rejection has no handler: Node
\* raises it as an uncaught exception and the process ends.
Crash ==
    /\ phase = "listening"
    /\ microtasks = <<>>
    /\ unhandled
    /\ phase' = "crashed"
    /\ exitCode' = <<ExitUnhandled>>
    /\ emitting' = FALSE
    /\ UNCHANGED << mcpProcesses, children, failed, exits, wire, requests,
                    microtasks, unhandled, sent, httpRes >>

\* --------------------------------------------------------- specifications
NoExits == [n \in ConfigNames |-> {}]

\* The process as node starts it.
Init ==
    /\ mcpProcesses = <<>>
    /\ children = [n \in ConfigNames |-> "none"]
    /\ failed = {}
    /\ exits = NoExits
    /\ phase = "booting"
    /\ exitCode = <<>>
    /\ wire = 0
    /\ requests = <<>>
    /\ microtasks = <<>>
    /\ emitting = FALSE
    /\ unhandled = FALSE
    /\ sent = <<>>
    /\ httpRes = NoResponse

Serve ==
    \/ Sigterm
    \/ ClientSend
    \/ \E msg \in WsInputs : WsMessage(msg)
    \/ RunMicrotask
    \/ Crash
    \/ Health
    \/ HttpTools
    \/ HttpResources
    \/ \E toolName \in ToolNames, args \in ArgsSet : HttpCallTool(toolName, args)
    \/ \E path \in ResourcePaths : HttpReadResource(path)
    \/ HttpEnd

\* The program as written.  No exit observer is ever registered (line 43 is
\* not reached), so no exit callback is among its steps.
Next == Listen \/ Serve

Spec == Init /\ [][Next]_vars

\* The Map after the loop of lines 26-57 when the spawn statement returned a
\* child exactly for the names in S: their entries, in configuration order.
RECURSIVE RegistryOf(_, _)
RegistryOf(cfgs, S) ==
    IF cfgs = <<>> THEN <<>>
    ELSE (IF Head(cfgs).name \in S THEN <<Entry(Head(cfgs))>> ELSE <<>>)
         \o RegistryOf(Tail(cfgs), S)

\* The Router, the Aggregator, the liveness route, the exit observer and the
\* shutdown handler are functions of the Map.  SpecRegistry runs them from
\* every Map that lines 43-52 build when they are executed: the server
\* listens, the names in S have a child, an exit observer and an entry, the
\* others were logged as failed.  Under Spec the Map is never written.
InitRegistry ==
    \E S \in SUBSET ConfigNames :
        /\ mcpProcesses = RegistryOf(REPOSITORIES, S)
        /\ children = [n \in ConfigNames |-> IF n \in S THEN "alive" ELSE "none"]
        /\ failed = ConfigNames \ S
        /\ exits = NoExits
        /\ phase = "listening"
        /\ exitCode = <<>>
        /\ wire = 0
        /\ requests = <<>>
        /\ microtasks = <<>>
        /\ emitting = FALSE
        /\ unhandled = FALSE
        /\ sent = <<>>
        /\ httpRes = NoResponse

NextRegistry ==
    \/ \E name \in ConfigNames, code \in ExitCodes : OnExit(name, code)
    \/ Serve

SpecRegistry == InitRegistry /\ [][NextRegistry]_vars

\* REPOSITORIES is an object literal: any string is a key it can hold.  This
\* one adds a backend whose name has a separator in it, my_repo.
ReposWithSeparator ==
    REPOSITORIES \o << [name |-> <<"my", "repo">>, url |-> "http://z"] >>

NamesWithSeparator ==
    { ReposWithSeparator[i].name : i \in DOMAIN ReposWithSeparator }

\* The names getAllTools returns for the Map as it is now.
ListedNames == { getAllTools(mcpProcesses)[k].name : k \in DOMAIN getAllTools(mcpProcesses) }

\* Arguments objects that satisfy both input schemas (lines 111-118, 125-130):
\* query is given, path is optional.
ValidArgs ==
    { [present |-> TRUE, query |-> "foo", path |-> Undefined],
      [present |-> TRUE, query |-> "foo", path |-> "src"] }

\* A caller posts a call for a name it was just given by the listing.
HttpCallListed ==
    \E toolName \in ListedNames, args \in ValidArgs : HttpCallTool(toolName, args)

\* As InitRegistry, for the configuration ReposWithSeparator.
InitSeparator ==
    \E S \in SUBSET NamesWithSeparator :
        /\ mcpProcesses = RegistryOf(ReposWithSeparator, S)
        /\ children = [n \in NamesWithSeparator |-> IF n \in S THEN "alive" ELSE "none"]
        /\ failed = NamesWithSeparator \ S
        /\ exits = [n \in NamesWithSeparator |-> {}]
        /\ phase = "listening"
        /\ exitCode = <<>>
        /\ wire = 0
        /\ requests = <<>>
        /\ microtasks = <<>>
        /\ emitting = FALSE
        /\ unhandled = FALSE
        /\ sent = <<>>
        /\ httpRes = NoResponse

\* Listing and calling over HTTP, with backends exiting in between turns.
NextSeparator ==
    \/ \E name \in NamesWithSeparator, code \in ExitCodes : OnExit(name, code)
    \/ HttpTools
    \/ HttpCallListed
    \/ HttpEnd

SpecSeparator == InitSeparator /\ [][NextSeparator]_vars

\* ------------------------------------------------------------------ claims
\* A handler invocation has settled: its reply is sent or its promise rejected.
Settled(r) == r.st \in {"replied", "rejected"}

RepliesTo(id) == { k \in DOMAIN sent : sent[k].id = id }

\* C1: on the channel, every inbound envelope that carries an id gets exactly
\* one outbound envelope with that id once its handler has settled, whether
\* the Router returned or failed; never two, and never none.
C1_ExactlyOneReplyPerId ==
    \A i \in DOMAIN requests :
        requests[i].id # <<>> =>
            /\ Cardinality(RepliesTo(requests[i].id)) <= 1
            /\ Settled(requests[i]) => Cardinality(RepliesTo(requests[i].id)) = 1

\* A message the channel adapter cannot serve: not JSON, no method, or no
\* params for a method that reads them.
Malformed(msg) ==
    \/ ~msg.json
    \/ msg.method = Undefined
    \/ msg.method \in {"tools/call", "resources/read"} /\ ~msg.params.present

\* C2: a malformed channel message does not crash the adapter: its handler
\* ends by sending one error envelope with code -32000 that carries the
\* message's id (none when the message has none), and the process is not
\* brought down by it.
C2_MalformedGetsErrorReply ==
    \A i \in DOMAIN requests :
        Malformed(requests[i].msg) /\ Settled(requests[i]) =>
            /\ requests[i].st = "replied"
            /\ \E k \in DOMAIN sent :
                  /\ sent[k].kind = "error"
                  /\ sent[k].id = requests[i].id
                  /\ sent[k].payload.code = ErrorCode

RECURSIVE NamesOf(_)
NamesOf(descriptors) ==
    IF descriptors = <<>> THEN <<>>
    ELSE <<Head(descriptors).name>> \o NamesOf(Tail(descriptors))

\* C3: once startup has run initializeMCPServers, every configured backend
\* whose start was not logged as failed is registered as running, and with
\* alpha and beta configured tools/list returns alpha_search, alpha_list,
\* beta_search, beta_list in that order.
C3_StartupRegistersBackends ==
    (phase = "listening" /\ \A n \in ConfigNames : children[n] # "exited") =>
        /\ \A n \in ConfigNames \ failed :
              \E i \in DOMAIN mcpProcesses :
                  mcpProcesses[i].name = n /\ mcpProcesses[i].status = "running"
        /\ NamesOf(getAllTools(mcpProcesses)) =
              << <<"alpha", "search">>, <<"alpha", "list">>,
                 <<"beta", "search">>, <<"beta", "list">> >>

\* C7: on the connection, replies leave in the order their requests arrived:
\* of two sent replies that carry ids, the one sent first answers the request
\* received first (ids are arrival numbers).
C7_RepliesInArrivalOrder ==
    \A k1, k2 \in DOMAIN sent :
        (k1 < k2 /\ sent[k1].id # <<>> /\ sent[k2].id # <<>>) =>
            sent[k1].id[1] < sent[k2].id[1]

\* C8: a failed start of one backend is contained: that backend is not in
\* the registry, every other configured backend has been spawned and is
\* registered (until it exits), and the server is serving.
C8_SpawnFailureContained ==
    \A n \in failed :
        /\ phase # "booting"
        /\ ~MapHas(mcpProcesses, n)
        /\ \A o \in ConfigNames \ {n} :
              /\ children[o] # "none"
              /\ children[o] \in {"alive", "killed"} => MapHas(mcpProcesses, o)

\* The backends the registry holds as running, in registration order.
RunningNames ==
    MapKeys(SelectSeq(mcpProcesses, LAMBDA e : e.status = "running"))

IsRunning(name) == \E j \in DOMAIN RunningNames : RunningNames[j] = name

\* A handler invocation that has not resumed from its await yet: no turn has
\* run since it read the registry.
InFlight(r) == r.st \in {"router", "adapter"}

\* What C4 says of a tools/call for `name` that ended with failure flag
\* `fails` and message `message`; the action is the piece callTool takes as
\* the action, the one after the first separator.
CallFailsAsClaimed(name, fails, message) ==
    LET repo   == name[1]
        action == IF Len(name) >= 2 THEN name[2] ELSE Undefined
    IN  /\ ~IsRunning(<<repo>>) =>
              fails /\ message = <<"Repository", repo, "not available">>
        /\ (IsRunning(<<repo>>) /\ action \notin {"search", "list"}) =>
              fails /\ message = <<"Unknown action:", action>>

ListsAsClaimed(toolNames, resourceUris, rn) ==
    /\ Len(toolNames) = 2 * Len(rn)
    /\ \A j \in DOMAIN rn :
          /\ toolNames[2 * j - 1] = rn[j] \o <<"search">>
          /\ toolNames[2 * j] = rn[j] \o <<"list">>
    /\ Len(resourceUris) = Len(rn)
    /\ \A j \in DOMAIN rn : resourceUris[j] = <<"mcp:", "", rn[j], "">>

RECURSIVE UrisOf(_)
UrisOf(descriptors) ==
    IF descriptors = <<>> THEN <<>>
    ELSE <<Head(descriptors).uri>> \o UrisOf(Tail(descriptors))

\* C5: in every registry state listTools is <name>_search, <name>_list for
\* each running backend in registration order and nothing else, and
\* listResources is one descriptor per running backend in that order (both
\* empty when nothing runs); the HTTP routes and the channel return them.
C5_ListsFollowRegistry ==
    /\ ListsAsClaimed(NamesOf(getAllTools(mcpProcesses)),
                      UrisOf(getAllResources(mcpProcesses)), RunningNames)
    /\ httpRes.route = "tools" =>
          ListsAsClaimed(NamesOf(httpRes.body.tools),
                         UrisOf(getAllResources(mcpProcesses)), RunningNames)
    /\ httpRes.route = "resources" =>
          ListsAsClaimed(NamesOf(getAllTools(mcpProcesses)),
                         UrisOf(httpRes.body.resources), RunningNames)
    /\ \A i \in DOMAIN requests :
          LET r == requests[i]
          IN  /\ (InFlight(r) /\ r.msg.method = "tools/list") =>
                    ListsAsClaimed(NamesOf(r.out.value.tools),
                                   UrisOf(getAllResources(mcpProcesses)), RunningNames)
              /\ (InFlight(r) /\ r.msg.method = "resources/list") =>
                    ListsAsClaimed(NamesOf(getAllTools(mcpProcesses)),
                                   UrisOf(r.out.value.resources), RunningNames)

\* GET /mcp/tools answered with four descriptors while two backends run.
C5_Witness ==
    /\ Len(RunningNames) = 2
    /\ httpRes.route = "tools"
    /\ Len(httpRes.body.tools) = 4

Elements(seq) == { seq[k] : k \in DOMAIN seq }

\* Backend n appears in no listing and no health reply, and a call naming it
\* fails as an unknown backend.
Omitted(n) ==
    /\ ~MapHas(mcpProcesses, n)
    /\ \A t \in Elements(NamesOf(getAllTools(mcpProcesses))) :
          t \notin {n \o <<"search">>, n \o <<"list">>}
    /\ \A u \in Elements(UrisOf(getAllResources(mcpProcesses))) : u[3] # n
    /\ httpRes.route = "health" =>
          /\ n \notin Elements(httpRes.body.repositories)
          /\ \A p \in Elements(httpRes.body.processes) : p.name # n
    /\ httpRes.route = "tools" =>
          \A t \in Elements(NamesOf(httpRes.body.tools)) :
              t \notin {n \o <<"search">>, n \o <<"list">>}
    /\ httpRes.route = "resources" =>
          \A u \in Elements(UrisOf(httpRes.body.resources)) : u[3] # n
    /\ (httpRes.route = "call" /\ <<httpRes.arg[1]>> = n) =>
          /\ httpRes.status = 500
          /\ httpRes.body.error = <<"Repository", httpRes.arg[1], "not available">>
    /\ \A i \in DOMAIN requests :
          LET r == requests[i]
          IN  (InFlight(r) /\ r.msg.method = "tools/call" /\ r.msg.params.present
                  /\ r.msg.params.name # UndefinedName
                  /\ <<r.msg.params.name[1]>> = n) =>
              /\ ~r.out.ok
              /\ r.out.message = <<"Repository", r.msg.params.name[1], "not available">>

\* C6: once a backend's exit callback has run the backend is out of the
\* registry and stays out: listings, health and calls from then on are those
\* of an unknown backend; the callback leaves the other entries as they were
\* and nothing puts an absent backend back.
C6_ExitedStaysAbsent ==
    /\ [](\A n \in ConfigNames : children[n] = "exited" => Omitted(n))
    /\ [][\A n \in ConfigNames :
            (children[n] = "alive" /\ children'[n] = "exited") =>
                mcpProcesses' = SelectSeq(mcpProcesses, LAMBDA e : e.name # n)]_vars
    /\ [][\A n \in ConfigNames :
            ~MapHas(mcpProcesses, n) => ~MapHas(mcpProcesses', n)]_vars

\* beta has exited, alpha is still registered, and a call of beta_search was
\* refused.
C6_Witness ==
    /\ children[<<"beta">>] = "exited"
    /\ MapHas(mcpProcesses, <<"alpha">>)
    /\ httpRes.route = "call"
    /\ httpRes.arg = <<"beta", "search">>
    /\ httpRes.status = 500

\* C9: the SIGTERM handler signals the handle of every backend registered at
\* that moment, waits for none of them (they are still registered and have
\* not exited when the process ends), and ends the process with code 0,
\* whatever is still on the connection.
C9_ShutdownSignalsAllThenExits ==
    /\ phase = "exited" =>
          /\ exitCode = <<ExitOk>>
          /\ \A i \in DOMAIN mcpProcesses : children[mcpProcesses[i].name] = "killed"
    /\ \A n \in ConfigNames :
          children[n] = "killed" => (phase = "exited" /\ MapHas(mcpProcesses, n))

\* The process ended on SIGTERM with two backends registered and a request
\* of the client not yet delivered.
C9_Witness ==
    /\ phase = "exited"
    /\ exitCode = <<ExitOk>>
    /\ Len(mcpProcesses) = 2
    /\ wire > 0
    /\ \A n \in ConfigNames : children[n] = "killed"

\* C10: GET /health lists exactly the registry: 'repositories' and
\* 'processes' have as many entries as the registry has running entries,
\* carry the same names in registration order, and list no backend that has
\* exited, whatever its exit code.
C10_HealthListsRegistry ==
    httpRes.route = "health" =>
        LET body == httpRes.body
        IN  /\ Len(body.repositories) = Len(RunningNames)
            /\ Len(body.processes) = Len(RunningNames)
            /\ \A j \in DOMAIN RunningNames :
                  /\ body.repositories[j] = RunningNames[j]
                  /\ body.processes[j].name = RunningNames[j]
                  /\ body.processes[j].status = "running"
            /\ \A n \in ConfigNames :
                  children[n] = "exited" => n \notin Elements(body.repositories)

\* alpha has exited with code 1 and the health reply lists beta alone.
C10_Witness ==
    /\ children[<<"alpha">>] = "exited"
    /\ 1 \in exits[<<"alpha">>]
    /\ httpRes.route = "health"
    /\ httpRes.body.repositories = << <<"beta">> >>

\* A tools/call whose name callTool resolves to a running backend and to the
\* action search or list.
NamesRunningAction(name) ==
    /\ name # UndefinedName
    /\ IsRunning(<<name[1]>>)
    /\ Len(name) >= 2
    /\ name[2] \in {"search", "list"}

\* C11: tools/call naming a running backend with action search or list
\* returns a result and never an error, on the HTTP route and on the channel,
\* whatever the arguments are, absent arguments included.
C11_RecognizedCallSucceeds ==
    /\ (httpRes.route = "call" /\ NamesRunningAction(httpRes.arg)) =>
          httpRes.status = 200
    /\ \A i \in DOMAIN requests :
          LET r == requests[i]
          IN  (InFlight(r) /\ r.msg.method = "tools/call" /\ r.msg.params.present
                  /\ NamesRunningAction(r.msg.params.name)) =>
              r.out.ok

\* C12: a Router failure reaches the caller as a structured error and a
\* Router success as a result: an HTTP call is answered 500 with {error}
\* or 200 with {result}; a channel request whose handler has settled has an
\* error envelope (code -32000, the failure's message) exactly when the
\* Router failed and a result envelope otherwise.
C12_FailuresSurfaceAsErrors ==
    /\ httpRes.route = "call" =>
          \/ httpRes.status = 200 /\ DOMAIN httpRes.body = {"result"}
          \/ httpRes.status = 500 /\ DOMAIN httpRes.body = {"error"}
    /\ \A i \in DOMAIN requests :
          LET r == requests[i]
          IN  (r.msg.json /\ Settled(r)) =>
              \E k \in DOMAIN sent :
                  /\ sent[k].id = r.id
                  /\ IF r.out.ok
                     THEN sent[k].kind = "result"
                     ELSE /\ sent[k].kind = "error"
                          /\ sent[k].payload.code = ErrorCode
                          /\ sent[k].payload.message = r.out.message

\* Uris a caller may send, as their '/'-separated parts: with and without
\* the scheme, with and without a path.
Uris ==
    { <<"mcp:", "", "alpha", "">>, <<"mcp:", "", "gamma", "docs", "a.md">>,
      <<"mcp:", "", "beta">>, <<"mcp:", "">>, <<"alpha">>, <<"">> }

\* What C13 says of a resources/read of `uri` that ended with success flag
\* `ok` and content entry `value`: the third part is the backend, the parts
\* after it are the path.
ReadAsClaimed(uri, ok, value) ==
    LET backend == IF Len(uri) >= 3 THEN uri[3] ELSE Undefined
        path    == [k \in 1..(Len(uri) - 3) |-> uri[k + 3]]
    IN  /\ ok
        /\ value.uri = uri
        /\ value.text = <<"Content of", path, "from", backend>>

\* C13: resources/read of any string uri succeeds in every registry state,
\* whether or not the backend it names is registered, and its content entry
\* echoes the uri and names the backend and the path parsed from it.
C13_ReadAlwaysSucceeds ==
    /\ \A uri \in Uris :
          ReadAsClaimed(uri, readResource(uri).ok, readResource(uri).value)
    /\ httpRes.route = "read" =>
          ReadAsClaimed(UriOf(httpRes.arg), httpRes.status = 200, httpRes.body)
    /\ \A i \in DOMAIN requests :
          LET r == requests[i]
          IN  (InFlight(r) /\ r.msg.method = "resources/read" /\ r.msg.params.present
                  /\ r.msg.params.uri # <<>>) =>
              ReadAsClaimed(r.msg.params.uri, r.out.ok, r.out.value)

\* GET /mcp/resources/gamma/docs/a.md was answered 200 while alpha is the
\* only registered backend.
C13_Witness ==
    /\ MapKeys(mcpProcesses) = << <<"alpha">> >>
    /\ httpRes.route = "read"
    /\ httpRes.arg = <<"gamma", "docs", "a.md">>
    /\ httpRes.status = 200
    /\ httpRes.body.text = <<"Content of", <<"docs", "a.md">>, "from", "gamma">>

\* The tool lists the server has answered with so far: to channel tools/list
\* requests (sent, or computed and not yet sent) and to GET /mcp/tools.
ToolListsSent ==
    { sent[k].payload.tools :
        k \in { j \in DOMAIN sent :
                  /\ sent[j].kind = "result"
                  /\ sent[j].id # <<>>
                  /\ requests[sent[j].id[1]].msg.method = "tools/list" } }

ToolListsInFlight ==
    { requests[i].out.value.tools :
        i \in { j \in DOMAIN requests :
                  /\ requests[j].msg.json
                  /\ requests[j].msg.method = "tools/list"
                  /\ InFlight(requests[j]) } }

ToolListsHttp ==
    IF httpRes.route = "tools" THEN { httpRes.body.tools } ELSE {}

\* C14: tools/list calls with no lifecycle change between them return the
\* same sequence: the answers computed in one turn are equal, and while no
\* backend has exited all answers given so far, on either transport, are.
C14_ToolsListIdempotent ==
    /\ Cardinality(ToolListsInFlight \cup ToolListsHttp) <= 1
    /\ exits = NoExits =>
          Cardinality(ToolListsSent \cup ToolListsInFlight \cup ToolListsHttp) <= 1

\* Two tools/list requests have been answered on the channel, both backends
\* were running throughout.
C14_Witness ==
    /\ exits = NoExits
    /\ Len(mcpProcesses) = 2
    /\ \E j, k \in DOMAIN sent :
          /\ j # k
          /\ sent[j].kind = "result" /\ sent[k].kind = "result"
          /\ sent[j].id # <<>> /\ sent[k].id # <<>>
          /\ requests[sent[j].id[1]].msg.method = "tools/list"
          /\ requests[sent[k].id[1]].msg.method = "tools/list"

\* A tool name with more than one separator whose first piece is a running
\* backend: whatever follows the first separator is not search and not list.
ManySeparators(name) ==
    /\ Len(name) >= 3
    /\ IsRunning(<<name[1]>>)

IsUnknownAction(message) ==
    /\ Len(message) = 2
    /\ message[1] = "Unknown action:"

\* C15: tools/call cuts the name at the first separator only, so a name with
\* more than one separator after a running backend (alpha_search_extra with
\* alpha running) fails with UnknownAction, on either transport.
C15_SplitOnFirstSeparatorOnly ==
    /\ (httpRes.route = "call" /\ ManySeparators(httpRes.arg)) =>
          /\ httpRes.status = 500
          /\ IsUnknownAction(httpRes.body.error)
    /\ \A i \in DOMAIN requests :
          LET r == requests[i]
          IN  (InFlight(r) /\ r.msg.method = "tools/call" /\ r.msg.params.present
                  /\ r.msg.params.name # UndefinedName
                  /\ ManySeparators(r.msg.params.name)) =>
              /\ ~r.out.ok
              /\ IsUnknownAction(r.out.message)

\* A step in which the Router ran or one of its answers was delivered: a
\* request was taken from the channel, a continuation ran, or an HTTP
\* response was written.
RouterStep ==
    \/ requests' # requests
    \/ sent' # sent
    \/ httpRes' # httpRes /\ httpRes' # NoResponse

\* A step in which the exit observer of some backend ran.
ExitStep ==
    \E n \in ConfigNames : children[n] = "alive" /\ children'[n] = "exited"

\* C16: no Router operation, succeeding or failing, on either transport,
\* changes the registry: its entries and their state, endpoint and handle
\* are the same after the step; after startup the Map changes only in a step
\* of an exit callback.
C16_RouterNeverWritesRegistry ==
    [][ /\ RouterStep => mcpProcesses' = mcpProcesses
        /\ mcpProcesses' # mcpProcesses => ExitStep ]_vars

\* The Router has failed an HTTP call and answered on the channel, and both
\* entries are still in the Map.
C16_Witness ==
    /\ httpRes.route = "call"
    /\ httpRes.status = 500
    /\ sent # <<>>
    /\ mcpProcesses = RegistryOf(REPOSITORIES, ConfigNames)

\* What C17 says of the answer to a call for the listed name `name`: it
\* succeeded, as the action the name ends with, on the backend the name
\* starts with.
RoutedAsListed(name, res) ==
    \E i \in DOMAIN mcpProcesses :
        \E action \in {"search", "list"} :
            /\ name = mcpProcesses[i].name \o <<action>>
            /\ res.status = 200
            /\ res.body.result.kind = (IF action = "search" THEN "results" ELSE "files")
            /\ action = "search" =>
                  << res.body.result.content[4] >> = mcpProcesses[i].name

HttpAnswerFor(r) ==
    HttpReply("call", r.msg.params.name,
              callTool(mcpProcesses, r.msg.params.name,
                       OrEmpty(r.msg.params.arguments)))

\* C18: both transports give the same outcome for the same call, absent
\* arguments included: the channel request tools/call succeeds exactly when
\* POST /mcp/tools/<name> with the same arguments does, with the same
\* result payload or the same failure message.
C18_TransportsAgree ==
    \A i \in DOMAIN requests :
        LET r == requests[i]
        IN  (InFlight(r) /\ r.msg.method = "tools/call" /\ r.msg.params.present) =>
            /\ r.out.ok <=> HttpAnswerFor(r).status = 200
            /\ r.out.ok => HttpAnswerFor(r).body.result = r.out.value
            /\ ~r.out.ok => HttpAnswerFor(r).body.error = r.out.message

\* The url REPOSITORIES gives for a configured name.
UrlOf(name) ==
    LET i == CHOOSE k \in DOMAIN REPOSITORIES : REPOSITORIES[k].name = name
    IN  REPOSITORIES[i].url

\* The backends whose tools getAllTools lists.
ListedBackends ==
    { n \in ConfigNames :
        \E k \in DOMAIN getAllTools(mcpProcesses) :
            getAllTools(mcpProcesses)[k].name = n \o <<"search">> }

\* C19: every registry entry has state running, a configured name as key,
\* that name's configured endpoint and one process handle of its own; no two
\* entries share a name; so the presence check of callTool accepts a backend
\* exactly when the state check of getAllTools lists it.
C19_EntriesAreRunning ==
    /\ \A i \in DOMAIN mcpProcesses :
          LET e == mcpProcesses[i]
          IN  /\ e.status = "running"
              /\ e.name \in ConfigNames
              /\ e.url = UrlOf(e.name)
              /\ e.process = <<"child", e.name>>
              /\ children[e.name] \in {"alive", "killed"}
              /\ \A j \in DOMAIN mcpProcesses : j # i => mcpProcesses[j].name # e.name
    /\ \A n \in ConfigNames : MapHas(mcpProcesses, n) <=> n \in ListedBackends

\* alpha has exited and left the Map; beta is still in it, running.
C19_Witness ==
    /\ children[<<"alpha">>] = "exited"
    /\ MapKeys(mcpProcesses) = << <<"beta">> >>
    /\ ListedBackends = { <<"beta">> }
====
